---- MODULE Spec2Model ----
(***************************************************************************)
(* Organizational Spotlight: the publication-cycle and submission          *)
(* lifecycle, modelled from src/database/db_manager.py,                    *)
(* src/services/publication_service.py, src/services/email_service.py,     *)
(* src/ui/user_dashboard.py and src/ui/approver_dashboard.py.              *)
(*                                                                         *)
(* Two specifications are given:                                           *)
(*   Spec    any sequence of calls of the data layer and the publication   *)
(*           service (the persistence API);                                *)
(*   SpecUI  the workflow: the handlers of the submitter and approver      *)
(*           dashboards, starting from an initialized database.            *)
(*                                                                         *)
(* Timestamps: datetime.now() is a counter (clock) read once per operation *)
(* and advanced by every operation that writes; 0 stands for NULL.         *)
(***************************************************************************)
EXTENDS Integers, Sequences, FiniteSets, TLC

VARIABLES
    publications,       \* table publications: row id -> row (AUTOINCREMENT, never deleted)
    submissions,        \* table submissions: row id -> row
    submission_fields,  \* table submission_fields: set of rows
    ai_suggestions,     \* table ai_suggestions: row id -> row
    users,              \* the users table: its rows, email the primary key
    clock,              \* datetime.now() as a timestamp counter
    today,              \* datetime.now() as a calendar date (index into Calendar)
    outbox,             \* emails actually delivered by the SMTP server
    session,            \* the approver's publish-page handler: where it is
    project_names,      \* settings.PROJECT_NAMES of the deployment
    last                \* the last call: its name, arguments and outcome

vars == <<publications, submissions, submission_fields, ai_suggestions, users, clock,
          today, outbox, session, project_names, last>>

env == <<outbox, session, project_names>>

store == <<publications, submissions, submission_fields, ai_suggestions, users>>

-----------------------------------------------------------------------------
(* Bounds of the model *)

MaxPubClock == 4       \* Spec: the clock stops the calls that write at this time
MaxSubClock == 4       \* SpecSub: the clock stops the calls that write at this time
MaxSubs == 2           \* submissions created, per behaviour
MaxPubArg == 2         \* publication ids passed as arguments: 1..MaxPubArg
FirstYear == 2025      \* first year of the calendar
MaxRows == 3           \* SpecStats: submissions in the table the statistics read
MaxUIClock == 9        \* SpecUI: the clock stops the handlers that write at this time

\* the years a caller names: those of the calendar
Years == {FirstYear, FirstYear + 1}

NULL == 0              \* SQL NULL / Python None for a timestamp or a row id
None == "None"         \* Python None for a string

-----------------------------------------------------------------------------
(* The domain *)

Periods == <<"first_half", "second_half">>

SubmissionStatuses == {"draft", "submitted", "approved", "rejected"}

\* update_submission_status takes any string: values outside the enumeration,
\* one of them a key of the dictionary get_publication_stats counts in
OtherStatuses == {"archived", "total"}

Users == {"user1@organization.com"}

Approvers == {"approver1@organization.com", "approver2@organization.com"}

Projects == {"Apollo"}

\* The dates datetime.now() takes, in order
Calendar ==
    << [year |-> FirstYear, month |-> 12, day |-> 15],
       [year |-> FirstYear + 1, month |-> 12, day |-> 16] >>

Now == Calendar[today]

-----------------------------------------------------------------------------
(* src/database/db_manager.py: the publications table *)

\* UNIQUE(year, month, period): the rows that hold a key
RowsOfKey(pubs, year, month, period) ==
    {i \in DOMAIN pubs :
        pubs[i].year = year /\ pubs[i].month = month /\ pubs[i].period = period}

UniqueViolation_NoConstraint(pubs, year, month, period) == FALSE

\* the INSERT of create_publication raises sqlite3.IntegrityError on a held key
UniqueViolation(pubs, year, month, period) ==
    RowsOfKey(pubs, year, month, period) # {}

\* create_publication: INSERT ... 'open'; on IntegrityError the connection
\* rolls back and the exception propagates
create_publication(pubs, year, month, period, now) ==
    IF UniqueViolation(pubs, year, month, period)
    THEN [raised |-> TRUE, id |-> NULL, pubs |-> pubs]
    ELSE [raised |-> FALSE, id |-> Len(pubs) + 1,
          pubs |-> Append(pubs, [year |-> year, month |-> month, period |-> period,
                                 status |-> "open", created_at |-> now,
                                 published_at |-> NULL])]

\* get_all_publications(year): `if year:` filters, None selects every row
get_all_publications(pubs, year) ==
    IF year # NULL THEN {i \in DOMAIN pubs : pubs[i].year = year} ELSE DOMAIN pubs

period_of_day_strict(day) == IF day < 15 THEN "first_half" ELSE "second_half"

\* period = 'first_half' if day <= 15 else 'second_half'
period_of_day(day) == IF day <= 15 THEN "first_half" ELSE "second_half"

\* utils/helpers.py get_current_period, at the date `now`
get_current_period(now) == <<now.year, now.month, period_of_day(now.day)>>

\* get_active_publication at the date `now`: fetchone() of the open rows with
\* the key of `now`; NULL for None
get_active_publication(pubs, now) ==
    LET rows == {i \in DOMAIN pubs :
                    /\ pubs[i].year = now.year
                    /\ pubs[i].month = now.month
                    /\ pubs[i].period = period_of_day(now.day)
                    /\ pubs[i].status = "open"}
    IN IF rows = {} THEN NULL ELSE CHOOSE i \in rows : \A j \in rows : i <= j

update_publication_status_no_stamp(pubs, pub_id, status, now) ==
    IF pub_id \notin DOMAIN pubs
    THEN [ret |-> FALSE, pubs |-> pubs]
    ELSE [ret |-> TRUE, pubs |-> [pubs EXCEPT ![pub_id].status = status]]

\* update_publication_status: UPDATE ... WHERE id = ?; returns rowcount > 0
update_publication_status(pubs, pub_id, status, now) ==
    IF pub_id \notin DOMAIN pubs
    THEN [ret |-> FALSE, pubs |-> pubs]
    ELSE [ret |-> TRUE,
          pubs |-> IF status = "published"
                   THEN [pubs EXCEPT ![pub_id].status = status,
                                     ![pub_id].published_at = now]
                   ELSE [pubs EXCEPT ![pub_id].status = status]]

-----------------------------------------------------------------------------
(* src/database/db_manager.py: the submissions and submission_fields tables *)

RECURSIVE join(_)
\* ', '.join(str(item) for item in field_value)
join(items) ==
    IF items = <<>> THEN ""
    ELSE IF Len(items) = 1 THEN items[1]
    ELSE items[1] \o ", " \o join(Tail(items))

\* a value of the form is [list, str, items]: a string (list = FALSE, str) or
\* a list of strings (list = TRUE, items); the stored text is
\* str(field_value) after a list was joined
stored_value(value) ==
    IF value.list THEN join(value.items) ELSE value.str

\* the rows INSERTed for one mapping
field_rows(submission_id, fields, now) ==
    {[submission_id |-> submission_id, field_name |-> n,
      field_value |-> stored_value(fields[n]), created_at |-> now] : n \in DOMAIN fields}

create_submission_as_submitted(subs, rows, publication_id, user_email, project_name, fields, now) ==
    LET submission_id == Len(subs) + 1
    IN [id |-> submission_id,
        subs |-> Append(subs, [publication_id |-> publication_id,
                               user_email |-> user_email,
                               project_name |-> project_name,
                               status |-> "submitted",
                               created_at |-> now, updated_at |-> now,
                               submitted_at |-> now, reviewed_by |-> None,
                               reviewed_at |-> NULL]),
        rows |-> rows \cup field_rows(submission_id, fields, now)]

\* create_submission: one row with status 'draft', then one row per field
create_submission(subs, rows, publication_id, user_email, project_name, fields, now) ==
    LET submission_id == Len(subs) + 1
    IN [id |-> submission_id,
        subs |-> Append(subs, [publication_id |-> publication_id,
                               user_email |-> user_email,
                               project_name |-> project_name,
                               status |-> "draft",
                               created_at |-> now, updated_at |-> now,
                               submitted_at |-> NULL, reviewed_by |-> None,
                               reviewed_at |-> NULL]),
        rows |-> rows \cup field_rows(submission_id, fields, now)]

\* get_submission_fields: {row['field_name']: row['field_value'] for row in rows},
\* the rows in the order of their insertion: of two rows with one field_name
\* the later one is kept
get_submission_fields(rows, submission_id) ==
    LET mine == {r \in rows : r.submission_id = submission_id}
        named(n) == {r \in mine : r.field_name = n}
    IN [n \in {r.field_name : r \in mine} |->
            (CHOOSE r \in named(n) :
                \A q \in named(n) : q.created_at <= r.created_at).field_value]

get_submissions_by_publication_any_status(subs, publication_id, status) ==
    {i \in DOMAIN subs : subs[i].publication_id = publication_id}

\* get_submissions_by_publication(publication_id, status): the ids of the
\* selected rows; `if status:` filters, None selects every status
get_submissions_by_publication(subs, publication_id, status) ==
    {i \in DOMAIN subs :
        /\ subs[i].publication_id = publication_id
        /\ (status # None => subs[i].status = status)}

rowcount_ignored(matched) == TRUE

\* return cursor.rowcount > 0, `matched` the rows the UPDATE's WHERE selects
rowcount_positive(matched) == matched # {}

update_submission_status_no_submit_stamp(subs, submission_id, status, reviewed_by, now) ==
    IF submission_id \notin DOMAIN subs
    THEN [ret |-> FALSE, subs |-> subs]
    ELSE [ret |-> TRUE,
          subs |-> [subs EXCEPT ![submission_id].status = status,
                                ![submission_id].updated_at = now]]

update_submission_status_clears_review(subs, submission_id, status, reviewed_by, now) ==
    IF submission_id \notin DOMAIN subs
    THEN [ret |-> FALSE, subs |-> subs]
    ELSE [ret |-> TRUE,
          subs |-> IF status = "submitted"
                   THEN [subs EXCEPT ![submission_id].status = status,
                                     ![submission_id].submitted_at = now,
                                     ![submission_id].updated_at = now]
                   ELSE [subs EXCEPT ![submission_id].status = status,
                                     ![submission_id].reviewed_by = reviewed_by,
                                     ![submission_id].reviewed_at =
                                         IF status \in {"approved", "rejected"}
                                         THEN now ELSE NULL,
                                     ![submission_id].updated_at = now]]

update_submission_status_first_review_wins(subs, submission_id, status, reviewed_by, now) ==
    IF submission_id \notin DOMAIN subs
    THEN [ret |-> FALSE, subs |-> subs]
    ELSE IF status \in {"approved", "rejected"} /\ subs[submission_id].reviewed_at # NULL
    THEN [ret |-> FALSE, subs |-> subs]
    ELSE [ret |-> TRUE,
          subs |-> IF status = "submitted"
                   THEN [subs EXCEPT ![submission_id].status = status,
                                     ![submission_id].submitted_at = now,
                                     ![submission_id].updated_at = now]
                   ELSE IF status \in {"approved", "rejected"}
                   THEN [subs EXCEPT ![submission_id].status = status,
                                     ![submission_id].reviewed_by = reviewed_by,
                                     ![submission_id].reviewed_at = now,
                                     ![submission_id].updated_at = now]
                   ELSE [subs EXCEPT ![submission_id].status = status,
                                     ![submission_id].updated_at = now]]

\* update_submission_status: three UPDATE statements by the new status
update_submission_status(subs, submission_id, status, reviewed_by, now) ==
    IF submission_id \notin DOMAIN subs
    THEN [ret |-> rowcount_positive({}), subs |-> subs]
    ELSE [ret |-> rowcount_positive({submission_id}),
          subs |-> IF status = "submitted"
                   THEN [subs EXCEPT ![submission_id].status = status,
                                     ![submission_id].submitted_at = now,
                                     ![submission_id].updated_at = now]
                   ELSE IF status \in {"approved", "rejected"}
                   THEN [subs EXCEPT ![submission_id].status = status,
                                     ![submission_id].reviewed_by = reviewed_by,
                                     ![submission_id].reviewed_at = now,
                                     ![submission_id].updated_at = now]
                   ELSE [subs EXCEPT ![submission_id].status = status,
                                     ![submission_id].updated_at = now]]

update_submission_fields_no_delete(subs, rows, submission_id, fields, now) ==
    [ret |-> TRUE,
     rows |-> rows \cup field_rows(submission_id, fields, now),
     subs |-> IF submission_id \in DOMAIN subs
              THEN [subs EXCEPT ![submission_id].updated_at = now]
              ELSE subs]

\* update_submission_fields: DELETE the rows of the id, INSERT the new ones,
\* UPDATE updated_at WHERE id = ?; returns True
update_submission_fields(subs, rows, submission_id, fields, now) ==
    [ret |-> TRUE,
     rows |-> {r \in rows : r.submission_id # submission_id}
                \cup field_rows(submission_id, fields, now),
     subs |-> IF submission_id \in DOMAIN subs
              THEN [subs EXCEPT ![submission_id].updated_at = now]
              ELSE subs]

-----------------------------------------------------------------------------
(* src/database/db_manager.py: the ai_suggestions table, and                 *)
(* src/services/ai_service.py                                                *)

\* save_ai_suggestion: one row INSERTed
save_ai_suggestion(log, submission_id, accepted) ==
    Append(log, [submission_id |-> submission_id, accepted |-> accepted])

\* What the provider does with one call: boto3.client raises, invoke_model
\* raises ClientError, the body is no JSON, the body has no content, the
\* content is a JSON object, an empty JSON object, text around a JSON object,
\* text around braces that are no JSON, text with no braces
Responses ==
    {"client_raises", "ClientError", "body_no_json", "no_content", "json",
     "json_empty", "text_with_json", "text_with_braces", "text"}

\* the responses that are a failure of the call or of the parsing
Failures == Responses \ {"json", "json_empty", "text_with_json"}

\* the try block of generate_suggestions: "suggestions" for a mapping with
\* entries, "{}" for an empty one, "None", or "raise" where a statement of it
\* raises
try_block(response) ==
    IF response \in {"json", "text_with_json"} THEN "suggestions"
    ELSE IF response = "json_empty" THEN "{}"
    ELSE IF response \in {"no_content", "text"} THEN None
    ELSE "raise"

generate_suggestions_uncaught(response) == try_block(response)

\* generate_suggestions: except ClientError and except Exception return None
generate_suggestions(response) ==
    IF try_block(response) = "raise" THEN None ELSE try_block(response)

\* `if suggestions:` / `if result:`
truthy(value) == value \notin {None, "{}"}

attempts_one_more(max_retries) == 1 .. (max_retries + 1)

\* for attempt in range(max_retries), counted from 1
attempts(max_retries) == 1 .. max_retries

RECURSIVE retry_loop(_, _, _)
\* the loop of generate_suggestions_with_retry from attempt `attempt` on,
\* responses[k] what the provider does with the k-th call: the value returned
\* and the number of calls of generate_suggestions
retry_loop(responses, max_retries, attempt) ==
    IF attempt \notin attempts(max_retries)
    THEN [ret |-> None, calls |-> attempt - 1]
    ELSE LET result == generate_suggestions(responses[attempt])
         IN IF result = "raise"
            THEN IF attempt = max_retries
                 THEN [ret |-> None, calls |-> attempt]
                 ELSE retry_loop(responses, max_retries, attempt + 1)
            ELSE IF truthy(result)
            THEN [ret |-> result, calls |-> attempt]
            ELSE retry_loop(responses, max_retries, attempt + 1)

generate_suggestions_with_retry(responses, max_retries) ==
    retry_loop(responses, max_retries, 1)

-----------------------------------------------------------------------------
(* src/services/publication_service.py *)

\* for month in range(1, 13): for period in periods: the 24 keys in loop order
CycleKeys(months) ==
    [k \in 1 .. (2 * Cardinality(months)) |->
        [month |-> (k + 1) \div 2, period |-> Periods[2 - (k % 2)]]]

MonthRange_Short == 1 .. 11

\* range(1, 13)
MonthRange == 1 .. 12

propagates_uncaught(raised) == raised

\* try: ... except Exception as e: print(...): no exception of
\* create_publication leaves the loop
propagates(raised) == FALSE

\* the double loop of generate_annual_publications over `keys`.  The keys of
\* the loop are pairwise distinct, so the INSERT of iteration k raises exactly
\* when the key was held before the call; the rows are appended in loop order
\* until an exception leaves the loop.
generate_loop(pubs, keys, year, now) ==
    LET try == [k \in 1 .. Len(keys) |->
                    create_publication(pubs, year, keys[k].month, keys[k].period, now)]
        left == {k \in 1 .. Len(keys) : propagates(try[k].raised)}
        stop == IF left = {} THEN Len(keys) + 1
                ELSE CHOOSE k \in left : \A j \in left : k <= j
        Done(k) == k < stop /\ ~try[k].raised
        done == SelectSeq([k \in 1 .. Len(keys) |-> k], Done)
        row(k) == try[k].pubs[Len(try[k].pubs)]
    IN [pubs |-> pubs \o [n \in 1 .. Len(done) |-> row(done[n])],
        created |-> [n \in 1 .. Len(done) |-> Len(pubs) + n],
        raised |-> left # {}]

\* generate_annual_publications(year): the publications after the call, the
\* ids of the list it returns and whether it raised
generate_annual_publications(pubs, year, now) ==
    generate_loop(pubs, CycleKeys(MonthRange), year, now)

\* close_publication
close_publication(pubs, pub_id, now) ==
    update_publication_status(pubs, pub_id, "under_review", now)

publish_publication_not_written(pubs, pub_id, now) == [ret |-> FALSE, pubs |-> pubs]

\* publish_publication
publish_publication(pubs, pub_id, now) ==
    update_publication_status(pubs, pub_id, "published", now)

RECURSIVE DescendingIds(_)
\* ORDER BY created_at DESC: the newest row first
DescendingIds(ids) ==
    IF ids = {} THEN <<>>
    ELSE LET m == CHOOSE i \in ids : \A j \in ids : j <= i
         IN <<m>> \o DescendingIds(ids \ {m})

RECURSIVE count_statuses(_, _, _, _)
\* for sub in submissions: if sub.status in stats: stats[sub.status] += 1
count_statuses(stats, subs, list, k) ==
    IF k > Len(list) THEN stats
    ELSE LET status == subs[list[k]].status
         IN count_statuses(IF status \in DOMAIN stats
                           THEN [stats EXCEPT ![status] = @ + 1]
                           ELSE stats,
                           subs, list, k + 1)

get_publication_stats_all_rows(subs, pub_id) ==
    count_statuses([total |-> Len(subs), draft |-> 0, submitted |-> 0,
                    approved |-> 0, rejected |-> 0],
                   subs, DescendingIds(DOMAIN subs), 1)

\* get_publication_stats
get_publication_stats(subs, pub_id) ==
    LET list == DescendingIds(get_submissions_by_publication(subs, pub_id, None))
    IN count_statuses([total |-> Len(list), draft |-> 0, submitted |-> 0,
                       approved |-> 0, rejected |-> 0],
                      subs, list, 1)

is_publication_ready_to_publish_approved_only(subs, pub_id) ==
    get_publication_stats(subs, pub_id).approved # 0

\* is_publication_ready_to_publish
is_publication_ready_to_publish(subs, pub_id) ==
    LET stats == get_publication_stats(subs, pub_id)
    IN IF stats.approved = 0 THEN FALSE
       ELSE IF stats.draft > 0 \/ stats.submitted > 0 THEN FALSE
       ELSE TRUE

\* ensure_current_year_publications at the date `now`: generates only when no
\* publication of the year exists
ensure_current_year_publications(pubs, date, now) ==
    IF get_all_publications(pubs, date.year) = {}
    THEN generate_annual_publications(pubs, date.year, now).pubs
    ELSE pubs

-----------------------------------------------------------------------------
(* Inputs of the calls *)

Str(s) == [list |-> FALSE, str |-> s, items |-> <<>>]

List(items) == [list |-> TRUE, str |-> "", items |-> items]

\* field mappings a caller passes
FieldInputs ==
    { [title |-> Str("A")],
      [title |-> Str("B"), tags |-> List(<<"X", "Y">>)] }

\* months a caller of create_publication names
InputMonths == {12}

NoStats == [total |-> 0, draft |-> 0, submitted |-> 0, approved |-> 0, rejected |-> 0]

Call(op, id, ret) ==
    [op |-> op, id |-> id, year |-> 0, month |-> 0, period |-> "", status |-> "",
     publication_id |-> NULL, fields |-> <<>>, reviewed_by |-> None,
     errors |-> <<>>, response |-> "", responses |-> <<>>, max_retries |-> 0,
     calls |-> 0, ret |-> ret, stats |-> NoStats]

\* an approver's session shows no submission
NoReview == [pc |-> "none", id |-> NULL, status |-> "", now |-> NULL]

\* the submitter's Submit handler is not running
NoSubmit == [pc |-> "idle", active_pub |-> NULL, user_email |-> "", project_name |-> "",
             form_data |-> <<>>, button |-> ""]

\* st.session_state of the approver and the place of the publish handler:
\* "idle", or "sent" between the send and publish_publication; the
\* suggestions held by the submitter's and the approver's sessions; the
\* place of the submitter's Submit handler
NoSession ==
    [confirm_publish |-> FALSE, pc |-> "idle", pub_id |-> NULL,
     ai_suggestions |-> None, ai_suggestions_of |-> {}, submit |-> NoSubmit,
     review |-> [a \in Approvers |-> NoReview]]

\* PROJECT_NAMES = None, as src/config/settings.py sets it
NoProjectNames == [list |-> FALSE, names |-> {}]

\* PROJECT_NAMES customized to a list of names
ProjectNames == [list |-> TRUE, names |-> Projects]

PyBool(b) == IF b THEN "True" ELSE "False"

-----------------------------------------------------------------------------
(* Spec: the calls of the data layer and of the publication service *)

Init ==
    /\ publications = <<>>
    /\ submissions = <<>>
    /\ submission_fields = {}
    /\ ai_suggestions = <<>>
    /\ users = {}
    /\ clock = 1
    /\ today = 1
    /\ outbox = <<>>
    /\ session = NoSession
    /\ project_names = NoProjectNames
    /\ last = Call("create_tables", NULL, "None")

CreatePublication(year, month, period) ==
    /\ clock < MaxPubClock
    /\ LET r == create_publication(publications, year, month, period, clock)
       IN /\ publications' = r.pubs
          /\ last' = [Call("create_publication", r.id,
                           IF r.raised THEN "raised" ELSE "ok")
                      EXCEPT !.year = year, !.month = month, !.period = period]
    /\ UNCHANGED <<users, ai_suggestions, submissions, submission_fields, today, env>>
    /\ clock' = IF store' # store THEN clock + 1 ELSE clock

GenerateAnnualPublications(year) ==
    /\ clock < MaxPubClock
    /\ LET r == generate_annual_publications(publications, year, clock)
       IN /\ publications' = r.pubs
          /\ last' = [Call("generate_annual_publications", Len(r.created),
                           IF r.raised THEN "raised" ELSE "ok")
                      EXCEPT !.year = year]
    /\ UNCHANGED <<users, ai_suggestions, submissions, submission_fields, today, env>>
    /\ clock' = IF store' # store THEN clock + 1 ELSE clock

EnsureCurrentYearPublications ==
    /\ clock < MaxPubClock
    /\ publications' = ensure_current_year_publications(publications, Now, clock)
    /\ last' = [Call("ensure_current_year_publications", NULL, "None")
                EXCEPT !.year = Now.year]
    /\ UNCHANGED <<users, ai_suggestions, submissions, submission_fields, today, env>>
    /\ clock' = IF store' # store THEN clock + 1 ELSE clock

ClosePublication(pub_id) ==
    /\ clock < MaxPubClock
    /\ LET r == close_publication(publications, pub_id, clock)
       IN /\ publications' = r.pubs
          /\ last' = Call("close_publication", pub_id, PyBool(r.ret))
    /\ UNCHANGED <<users, ai_suggestions, submissions, submission_fields, today, env>>
    /\ clock' = IF store' # store THEN clock + 1 ELSE clock

PublishPublication(pub_id) ==
    /\ clock < MaxPubClock
    /\ LET r == publish_publication(publications, pub_id, clock)
       IN /\ publications' = r.pubs
          /\ last' = Call("publish_publication", pub_id, PyBool(r.ret))
    /\ UNCHANGED <<users, ai_suggestions, submissions, submission_fields, today, env>>
    /\ clock' = IF store' # store THEN clock + 1 ELSE clock

GetActivePublication ==
    /\ last' = Call("get_active_publication",
                    get_active_publication(publications, Now), "ok")
    /\ UNCHANGED <<store, clock, today, env>>

CreateSubmission(publication_id, user_email, project_name, fields) ==
    /\ clock < MaxSubClock
    /\ Len(submissions) < MaxSubs
    /\ LET r == create_submission(submissions, submission_fields, publication_id,
                                  user_email, project_name, fields, clock)
       IN /\ submissions' = r.subs
          /\ submission_fields' = r.rows
          /\ last' = [Call("create_submission", r.id, "ok")
                      EXCEPT !.publication_id = publication_id, !.fields = fields]
    /\ UNCHANGED <<users, ai_suggestions, publications, today, env>>
    /\ clock' = IF store' # store THEN clock + 1 ELSE clock

UpdateSubmissionStatus(submission_id, status, reviewed_by) ==
    /\ clock < MaxSubClock
    /\ LET r == update_submission_status(submissions, submission_id, status,
                                         reviewed_by, clock)
       IN /\ submissions' = r.subs
          /\ last' = [Call("update_submission_status", submission_id, PyBool(r.ret))
                      EXCEPT !.status = status, !.reviewed_by = reviewed_by]
    /\ UNCHANGED <<users, ai_suggestions, publications, submission_fields, today, env>>
    /\ clock' = IF store' # store THEN clock + 1 ELSE clock

UpdateSubmissionFields(submission_id, fields) ==
    /\ clock < MaxSubClock
    /\ LET r == update_submission_fields(submissions, submission_fields,
                                         submission_id, fields, clock)
       IN /\ submissions' = r.subs
          /\ submission_fields' = r.rows
          /\ last' = [Call("update_submission_fields", submission_id, PyBool(r.ret))
                      EXCEPT !.fields = fields]
    /\ UNCHANGED <<users, ai_suggestions, publications, today, env>>
    /\ clock' = IF store' # store THEN clock + 1 ELSE clock

\* the calendar date moves on
AdvanceDate ==
    /\ today < Len(Calendar)
    /\ today' = today + 1
    /\ last' = Call("datetime_now", NULL, "None")
    /\ UNCHANGED <<store, clock, env>>

\* the calls on the publications table
NextPublications ==
    \/ \E year \in Years, month \in InputMonths, period \in {"first_half", "second_half"} :
         CreatePublication(year, month, period)
    \/ \E year \in Years : GenerateAnnualPublications(year)
    \/ EnsureCurrentYearPublications
    \/ \E pub_id \in 1 .. MaxPubArg : ClosePublication(pub_id)
    \/ \E pub_id \in 1 .. MaxPubArg : PublishPublication(pub_id)
    \/ GetActivePublication
    \/ AdvanceDate

\* the calls on the submissions and submission_fields tables
NextSubmissions ==
    \/ \E publication_id \in 1 .. MaxPubArg, user_email \in Users,
          project_name \in Projects, fields \in FieldInputs :
         CreateSubmission(publication_id, user_email, project_name, fields)
    \/ \E submission_id \in 1 .. (Len(submissions) + 1),
          status \in SubmissionStatuses \cup OtherStatuses :
         \E reviewed_by \in (IF status \in {"approved", "rejected"}
                             THEN Approvers \cup {None} ELSE {None}) :
            UpdateSubmissionStatus(submission_id, status, reviewed_by)
    \/ \E submission_id \in 1 .. (Len(submissions) + 1), fields \in FieldInputs :
         UpdateSubmissionFields(submission_id, fields)

\* calls on both tables, with ids that exist and ids that do not
NextData ==
    \/ \E period \in {"first_half", "second_half"} :
         CreatePublication(FirstYear, 12, period)
    \/ \E pub_id \in 1 .. MaxPubArg : ClosePublication(pub_id)
    \/ \E pub_id \in 1 .. MaxPubArg : PublishPublication(pub_id)
    \/ \E publication_id \in 1 .. MaxPubArg, user_email \in Users,
          project_name \in Projects, fields \in FieldInputs :
         CreateSubmission(publication_id, user_email, project_name, fields)
    \/ \E submission_id \in 1 .. (Len(submissions) + 1),
          status \in {"submitted", "approved", "draft"} :
         \E reviewed_by \in (IF status = "approved" THEN Approvers ELSE {None}) :
            UpdateSubmissionStatus(submission_id, status, reviewed_by)

\* Spec: any sequence of calls on the publications table.  The data layer
\* enforces no foreign key, and no call on one table reads or writes the
\* other, so the two tables are explored separately.
Spec == Init /\ [][NextPublications]_vars

\* SpecSub: any sequence of calls on the submissions tables
SpecSub == Init /\ [][NextSubmissions]_vars

\* SpecData: calls on the two tables together, from few inputs
SpecData == Init /\ [][NextData]_vars

-----------------------------------------------------------------------------
(* SpecStats: get_publication_stats and is_publication_ready_to_publish,    *)
(* applied to submissions tables of every content.                          *)

\* the publication ids of the drawn tables
StatsPubs == {1, 2}

\* what one row of a drawn table is made from
RowInputs ==
    [publication_id : StatsPubs, status : SubmissionStatuses \cup OtherStatuses]

RECURSIVE BuildSubmissions(_, _, _)
\* the table the data layer holds after, for each drawn row in turn,
\* create_submission and then update_submission_status to the row's status
BuildSubmissions(list, k, acc) ==
    IF k > Len(list) THEN acc
    ELSE LET c == create_submission(acc.subs, acc.rows, list[k].publication_id,
                                    CHOOSE u \in Users : TRUE,
                                    CHOOSE n \in Projects : TRUE,
                                    [title |-> Str("A")], acc.now)
             u == IF list[k].status = "draft"
                  THEN [subs |-> c.subs, now |-> acc.now + 1]
                  ELSE [subs |-> update_submission_status(
                                    c.subs, c.id, list[k].status,
                                    IF list[k].status \in {"approved", "rejected"}
                                    THEN CHOOSE a \in Approvers : TRUE ELSE None,
                                    acc.now + 1).subs,
                        now |-> acc.now + 2]
         IN BuildSubmissions(list, k + 1, [subs |-> u.subs, rows |-> c.rows, now |-> u.now])

InitStats ==
    \E n \in 0 .. MaxRows :
      \E list \in [1 .. n -> RowInputs] :
        LET t == BuildSubmissions(list, 1, [subs |-> <<>>, rows |-> {}, now |-> 1])
        IN /\ submissions = t.subs
           /\ submission_fields = t.rows
           /\ clock = t.now
    /\ publications = <<>>
    /\ ai_suggestions = <<>>
    /\ users = {}
    /\ today = 1
    /\ outbox = <<>>
    /\ session = NoSession
    /\ project_names = NoProjectNames
    /\ last = Call("create_tables", NULL, "None")

GetPublicationStats(pub_id) ==
    /\ last' = [Call("get_publication_stats", pub_id, "ok")
                EXCEPT !.stats = get_publication_stats(submissions, pub_id)]
    /\ UNCHANGED <<store, clock, today, env>>

IsPublicationReadyToPublish(pub_id) ==
    /\ last' = Call("is_publication_ready_to_publish", pub_id,
                    PyBool(is_publication_ready_to_publish(submissions, pub_id)))
    /\ UNCHANGED <<store, clock, today, env>>

NextStats ==
    \/ \E pub_id \in StatsPubs : GetPublicationStats(pub_id)
    \/ \E pub_id \in StatsPubs : IsPublicationReadyToPublish(pub_id)

SpecStats == InitStats /\ [][NextStats]_vars

-----------------------------------------------------------------------------
(* src/services/email_service.py *)

send_publication_email_always_true(render_ok, smtp_ok) == TRUE

\* send_publication_email: False when render_email_html raises, else what
\* send_email returns: True after server.send_message, False on any exception
send_publication_email(render_ok, smtp_ok) ==
    IF ~render_ok THEN FALSE ELSE smtp_ok

-----------------------------------------------------------------------------
(* src/utils/validators.py and src/config/settings.py *)

\* FORM_FIELDS: one field of each validated kind
FORM_FIELDS ==
    << [name |-> "title", label |-> "Spotlight Title", type |-> "text",
        required |-> TRUE, options |-> {}],
       [name |-> "category", label |-> "Category", type |-> "select",
        required |-> TRUE, options |-> {"Innovation", "Other"}],
       [name |-> "tags", label |-> "Tags", type |-> "multiselect",
        required |-> FALSE, options |-> {"X", "Y"}] >>

\* validate_text_length(value, label, 0, 200) for a 'text' field
MaxTextLength == 200

\* validate_text_length(project_name, "Project name", 1, 100)
MaxProjectNameLength == 100

\* str.strip() on the strings of the model: " " is the blank one
strip(text) == IF text = " " THEN "" ELSE text

\* validate_required_field: value is None or a blank string
required_missing(fields, name) ==
    \/ name \notin DOMAIN fields
    \/ ~fields[name].list /\ strip(fields[name].str) = ""

\* `not value`: None, '' or []
falsy(fields, name) ==
    \/ name \notin DOMAIN fields
    \/ IF fields[name].list THEN fields[name].items = <<>> ELSE fields[name].str = ""

\* the messages one field of the configuration adds
field_errors(fields, config) ==
    IF config.required /\ required_missing(fields, config.name)
    THEN <<config.label \o " is required">>
    ELSE IF falsy(fields, config.name) /\ ~config.required THEN <<>>
    ELSE IF config.type = "text"
    THEN IF Len(strip(fields[config.name].str)) > MaxTextLength
         THEN <<config.label \o " must not exceed 200 characters">> ELSE <<>>
    ELSE IF config.type = "select"
    THEN IF fields[config.name].list \/ fields[config.name].str \notin config.options
         THEN <<config.label \o " must be one of the available options">> ELSE <<>>
    ELSE IF config.type = "multiselect"
    THEN IF ~fields[config.name].list
         THEN <<config.label \o " must be a list">> ELSE <<>>
    ELSE <<>>

RECURSIVE validation_loop_first_only(_, _, _)
validation_loop_first_only(fields, field_config, k) ==
    IF k > Len(field_config) THEN <<>>
    ELSE IF field_errors(fields, field_config[k]) # <<>>
    THEN field_errors(fields, field_config[k])
    ELSE validation_loop_first_only(fields, field_config, k + 1)

RECURSIVE validation_loop(_, _, _)
\* for config in field_config: the messages of the fields, in their order
validation_loop(fields, field_config, k) ==
    IF k > Len(field_config) THEN <<>>
    ELSE field_errors(fields, field_config[k]) \o validation_loop(fields, field_config, k + 1)

\* validate_form_submission: the list of errors; is_valid is errors = <<>>
validate_form_submission(fields, field_config) ==
    validation_loop(fields, field_config, 1)

\* validate_project_name(project_name, available_projects): "valid" or
\* "invalid", the first component of the pair it returns
validate_project_name(project_name, available_projects) ==
    IF strip(project_name) = "" THEN "invalid"
    ELSE IF ~available_projects.list
    THEN IF Len(strip(project_name)) > MaxProjectNameLength THEN "invalid" ELSE "valid"
    ELSE IF project_name = "Other" \/ project_name \notin available_projects.names
    THEN IF Len(strip(project_name)) > MaxProjectNameLength THEN "invalid" ELSE "valid"
    ELSE "valid"

-----------------------------------------------------------------------------
(* SpecUI: the handlers of src/ui/user_dashboard.py and                     *)
(* src/ui/approver_dashboard.py.  A handler is one run of the page script;  *)
(* the publish handler is two steps, the send and the status write, since   *)
(* the send is a blocking call to the SMTP server.                          *)

\* the approver who is logged in
Approver == "approver1@organization.com"

\* what render_submission_form returns: every configured field, the select
\* always one of its options, the multiselect always a list
FormInputs ==
    { [title |-> Str("A"), category |-> Str("Innovation"), tags |-> List(<<>>)],
      [title |-> Str("B"), category |-> Str("Other"), tags |-> List(<<"X", "Y">>)],
      [title |-> Str(""), category |-> Str("Innovation"), tags |-> List(<<>>)] }

\* a smaller choice of forms: a valid form and one without title
AIFormInputs ==
    { [title |-> Str("A"), category |-> Str("Innovation"), tags |-> List(<<>>)],
      [title |-> Str(""), category |-> Str("Innovation"), tags |-> List(<<>>)] }

\* what render_project_selector returns: a listed name or nothing
ProjectInputs == Projects \cup {""}

\* create_user(email, name, role) on the rows `us`: email is the primary key
create_user(us, email, name, role, now) ==
    IF \E u \in us : u.email = email
    THEN [raised |-> TRUE, users |-> us]
    ELSE [raised |-> FALSE,
          users |-> us \cup {[email |-> email, name |-> name, role |-> role,
                              created_at |-> now]}]

\* the sample users of seed_sample_users
sample_users ==
    { [email |-> "user1@organization.com", name |-> "John Doe", role |-> "user"],
      [email |-> "user2@organization.com", name |-> "Jane Smith", role |-> "user"],
      [email |-> "approver1@organization.com", name |-> "Admin User", role |-> "approver"] }

\* seed_sample_users: create_user for each sample user, an exception caught
\* and the loop continued (the emails differ, so the order does not matter)
seed_sample_users(us, now) ==
    UNION { create_user(us, u.email, u.name, u.role, now).users : u \in sample_users }

\* initialize_database at the date `date` on the publications `pubs` of the
\* database file: create_tables, then init_db.generate_annual_publications
\* for the current and the next year
initialize_database(pubs, date, now) ==
    generate_loop(generate_loop(pubs, CycleKeys(MonthRange), date.year, now).pubs,
                  CycleKeys(MonthRange), date.year + 1, now).pubs

InitUI ==
    /\ publications = initialize_database(<<>>, Calendar[1], 1)
    /\ submissions = <<>>
    /\ submission_fields = {}
    /\ ai_suggestions = <<>>
    /\ users = seed_sample_users({}, 1)
    /\ clock = 2
    /\ today = 1
    /\ outbox = <<>>
    /\ session = NoSession
    /\ project_names \in {NoProjectNames, ProjectNames}
    /\ last = Call("initialize_database", NULL, "None")

\* show_new_submission_page, Submit (button = "submitted") or Save as Draft
\* (button = "draft") clicked, after show_user_dashboard ensured the year
SubmitClick(user_email, project_name, form_data, button) ==
    LET pubs == ensure_current_year_publications(publications, Now, clock)
        active_pub == get_active_publication(pubs, Now)
        errors == validate_form_submission(form_data, FORM_FIELDS)
        proj == validate_project_name(project_name, project_names)
        c == create_submission(submissions, submission_fields, active_pub,
                               user_email, project_name, form_data, clock)
        u == update_submission_status(c.subs, c.id, button, None, clock + 1)
        outcome ==
            IF active_pub = NULL THEN "no_active_publication"
            ELSE IF ~project_names.list THEN "raised"      \* None + [...] in render_project_selector
            ELSE IF project_name = "" THEN "no_project"
            ELSE IF errors # <<>> \/ proj = "invalid" THEN "invalid"
            ELSE "created"
    IN /\ clock + 1 < MaxUIClock
       /\ Len(submissions) < MaxSubs
       /\ publications' = pubs
       /\ submissions' = IF outcome = "created" THEN u.subs ELSE submissions
       /\ submission_fields' = IF outcome = "created" THEN c.rows ELSE submission_fields
       /\ last' = [Call("submit_click", IF outcome = "created" THEN c.id ELSE NULL, outcome)
                   EXCEPT !.status = button, !.fields = form_data]
       /\ ai_suggestions' =
             IF outcome = "created" /\ truthy(session.ai_suggestions)
             THEN save_ai_suggestion(ai_suggestions, c.id, TRUE)
             ELSE ai_suggestions
       /\ session' = IF outcome = "created"
                     THEN [session EXCEPT !.ai_suggestions = None]
                     ELSE session
       /\ UNCHANGED <<users, today, outbox, project_names>>
       /\ clock' = IF store' # store THEN clock + 2 ELSE clock

\* show_review_queue_page: the submissions it shows, the submitted ones of
\* the publications of get_all_publications
review_queue ==
    UNION {get_submissions_by_publication(submissions, p, "submitted") :
              p \in get_all_publications(publications, NULL)}

\* show_submission_review, Approve clicked
ApproveClick(submission_id) ==
    /\ clock < MaxUIClock
    /\ submission_id \in review_queue
    /\ LET r == update_submission_status(submissions, submission_id, "approved",
                                         Approver, clock)
       IN /\ submissions' = r.subs
          /\ last' = [Call("approve_click", submission_id, PyBool(r.ret))
                      EXCEPT !.status = "approved"]
    /\ UNCHANGED <<users, ai_suggestions, publications, submission_fields, today, env>>
    /\ clock' = clock + 1

\* show_submission_review, Reject clicked and then Confirm Rejection: the
\* click of the inner button reruns the script with reject_button False, the
\* block that holds the inner button is not entered and nothing is written
ConfirmRejectionClick(submission_id) ==
    /\ submission_id \in review_queue
    /\ last' = [Call("confirm_rejection_click", submission_id, "not_reached")
                EXCEPT !.status = "rejected"]
    /\ UNCHANGED <<store, clock, today, env>>

\* show_submission_review, Edit Submission checked and Save Changes clicked
SaveChangesClick(submission_id, edited_fields) ==
    /\ clock < MaxUIClock
    /\ submission_id \in review_queue
    /\ LET r == update_submission_fields(submissions, submission_fields,
                                         submission_id, edited_fields, clock)
       IN /\ submissions' = r.subs
          /\ submission_fields' = r.rows
          /\ last' = Call("save_changes_click", submission_id, PyBool(r.ret))
    /\ UNCHANGED <<users, ai_suggestions, publications, today, env>>
    /\ clock' = clock + 1

\* show_all_publications_page: get_publication_stats of a listed publication
ShowAllPublications(pub_id) ==
    /\ pub_id \in get_all_publications(publications, Now.year)
    /\ last' = [Call("show_all_publications", pub_id, "ok")
                EXCEPT !.stats = get_publication_stats(submissions, pub_id)]
    /\ UNCHANGED <<store, clock, today, env>>

\* show_publish_page: the publications it offers, those open or under review
\* with an approved submission
pubs_ready ==
    {p \in get_all_publications(publications, NULL) :
        /\ publications[p].status \in {"open", "under_review"}
        /\ get_submissions_by_publication(submissions, p, "approved") # {}}

\* show_publish_page, Publish & Send clicked
PublishAndSendClick ==
    /\ session.pc = "idle"
    /\ pubs_ready # {}
    /\ ~session.confirm_publish
    /\ session' = [session EXCEPT !.confirm_publish = TRUE]
    /\ last' = Call("publish_and_send_click", NULL, "None")
    /\ UNCHANGED <<store, clock, today, outbox, project_names>>

\* show_publish_page, Cancel clicked
CancelClick ==
    /\ session.pc = "idle"
    /\ pubs_ready # {}
    /\ session.confirm_publish
    /\ session' = [session EXCEPT !.confirm_publish = FALSE]
    /\ last' = Call("cancel_click", NULL, "None")
    /\ UNCHANGED <<store, clock, today, outbox, project_names>>

\* show_publish_page, Yes, Publish Now clicked: send_publication_email for the
\* selected publication and its approved submissions.  The SMTP server
\* delivers when the template rendered and the send went through.
YesPublishNowSend(pub_id, render_ok, smtp_ok) ==
    /\ session.pc = "idle"
    /\ session.confirm_publish
    /\ pub_id \in pubs_ready
    /\ LET email_sent == send_publication_email(render_ok, smtp_ok)
       IN /\ outbox' = IF render_ok /\ smtp_ok
                       THEN Append(outbox,
                                [pub_id |-> pub_id,
                                 submissions |-> get_submissions_by_publication(
                                                    submissions, pub_id, "approved")])
                       ELSE outbox
          /\ session' = IF email_sent
                        THEN [session EXCEPT !.pc = "sent", !.pub_id = pub_id]
                        ELSE session
          /\ last' = Call("send_publication_email", pub_id, PyBool(email_sent))
    /\ UNCHANGED <<store, clock, today, project_names>>

\* show_publish_page, after email_sent: publish_publication(selected_pub_id)
\* and confirm_publish = False
YesPublishNowMark ==
    /\ session.pc = "sent"
    /\ clock < MaxUIClock
    /\ LET r == publish_publication(publications, session.pub_id, clock)
       IN /\ publications' = r.pubs
          /\ last' = Call("publish_publication", session.pub_id, PyBool(r.ret))
    /\ session' = [session EXCEPT !.confirm_publish = FALSE, !.pc = "idle",
                                  !.pub_id = NULL]
    /\ UNCHANGED <<users, ai_suggestions, submissions, submission_fields, today, outbox, project_names>>
    /\ clock' = clock + 1

NextUI ==
    \/ \E user_email \in Users, project_name \in ProjectInputs,
          form_data \in AIFormInputs, button \in {"submitted", "draft"} :
         SubmitClick(user_email, project_name, form_data, button)
    \/ \E submission_id \in review_queue : ApproveClick(submission_id)
    \/ \E submission_id \in review_queue : ConfirmRejectionClick(submission_id)
    \/ \E submission_id \in review_queue, edited_fields \in FormInputs :
         SaveChangesClick(submission_id, edited_fields)
    \/ \E pub_id \in {1} \cup {submissions[i].publication_id : i \in DOMAIN submissions} :
         ShowAllPublications(pub_id)
    \/ PublishAndSendClick
    \/ CancelClick
    \/ \E pub_id \in pubs_ready, render_ok \in BOOLEAN, smtp_ok \in BOOLEAN :
         YesPublishNowSend(pub_id, render_ok, smtp_ok)
    \/ YesPublishNowMark
    \/ AdvanceDate

SpecUI == InitUI /\ [][NextUI]_vars

-----------------------------------------------------------------------------
(* SpecRace: the submitter's Submit handler in its two database steps, the *)
(* read of the active publication and the insert, with the approver's      *)
(* handlers and the change of date between them.                           *)

\* show_new_submission_page up to the insert: get_active_publication, the
\* project selector and the validation of the form
SubmitRead(user_email, project_name, form_data, button) ==
    LET pubs == ensure_current_year_publications(publications, Now, clock)
        active_pub == get_active_publication(pubs, Now)
        errors == validate_form_submission(form_data, FORM_FIELDS)
        proj == validate_project_name(project_name, project_names)
        outcome ==
            IF active_pub = NULL THEN "no_active_publication"
            ELSE IF ~project_names.list THEN "raised"
            ELSE IF project_name = "" THEN "no_project"
            ELSE IF errors # <<>> \/ proj = "invalid" THEN "invalid"
            ELSE "valid"
    IN /\ session.submit.pc = "idle"
       /\ clock + 1 < MaxUIClock
       /\ Len(submissions) < MaxSubs
       /\ publications' = pubs
       /\ session' = IF outcome = "valid"
                     THEN [session EXCEPT !.submit =
                              [pc |-> "insert", active_pub |-> active_pub,
                               user_email |-> user_email, project_name |-> project_name,
                               form_data |-> form_data, button |-> button]]
                     ELSE session
       /\ last' = [Call("submit_read", NULL, outcome)
                   EXCEPT !.status = button, !.fields = form_data,
                          !.publication_id = active_pub]
       /\ UNCHANGED <<submissions, submission_fields, ai_suggestions, users, today, outbox,
                      project_names>>
       /\ clock' = IF store' # store THEN clock + 1 ELSE clock

\* show_new_submission_page from the insert on: create_submission with the
\* id of the publication read before, update_submission_status,
\* save_ai_suggestion
SubmitInsert ==
    LET h == session.submit
        c == create_submission(submissions, submission_fields, h.active_pub,
                               h.user_email, h.project_name, h.form_data, clock)
        u == update_submission_status(c.subs, c.id, h.button, None, clock + 1)
    IN /\ h.pc = "insert"
       /\ submissions' = u.subs
       /\ submission_fields' = c.rows
       /\ ai_suggestions' = IF truthy(session.ai_suggestions)
                            THEN save_ai_suggestion(ai_suggestions, c.id, TRUE)
                            ELSE ai_suggestions
       /\ session' = [session EXCEPT !.ai_suggestions = None, !.submit = NoSubmit]
       /\ last' = [Call("submit_insert", c.id, "created")
                   EXCEPT !.status = h.button, !.fields = h.form_data,
                          !.publication_id = h.active_pub]
       /\ UNCHANGED <<publications, users, today, outbox, project_names>>
       /\ clock' = clock + 2

NextRace ==
    \/ \E user_email \in Users, project_name \in ProjectInputs,
          form_data \in AIFormInputs, button \in {"submitted", "draft"} :
         SubmitRead(user_email, project_name, form_data, button)
    \/ SubmitInsert
    \/ \E submission_id \in review_queue : ApproveClick(submission_id)
    \/ PublishAndSendClick
    \/ CancelClick
    \/ \E pub_id \in pubs_ready, render_ok \in BOOLEAN, smtp_ok \in BOOLEAN :
         YesPublishNowSend(pub_id, render_ok, smtp_ok)
    \/ YesPublishNowMark
    \/ AdvanceDate

SpecRace == InitUI /\ [][NextRace]_vars

-----------------------------------------------------------------------------
(* SpecReview: two approvers' sessions on the review queue.  A session     *)
(* shows a submission that was submitted when its page was built; the      *)
(* click calls update_submission_status, which takes datetime.now() and    *)
(* then runs its UPDATE in a transaction of its own.                       *)

\* show_review_queue_page built for approver `a`, the submission opened
OpenReview(a, submission_id) ==
    /\ session.review[a].pc \in {"none", "done"}
    /\ submission_id \in review_queue
    /\ session' = [session EXCEPT !.review[a] =
                      [pc |-> "viewing", id |-> submission_id, status |-> "", now |-> NULL]]
    /\ last' = [Call("open_review", submission_id, "None") EXCEPT !.reviewed_by = a]
    /\ UNCHANGED <<store, clock, today, outbox, project_names>>

\* Approve (status = "approved") or Confirm Rejection (status = "rejected")
\* in the session of `a`: update_submission_status entered, now taken
ReviewCall(a, status) ==
    /\ session.review[a].pc = "viewing"
    /\ clock < MaxUIClock
    /\ session' = [session EXCEPT !.review[a].pc = "calling",
                                  !.review[a].status = status,
                                  !.review[a].now = clock]
    /\ last' = [Call("update_submission_status", session.review[a].id, "None")
                EXCEPT !.status = status, !.reviewed_by = a]
    /\ clock' = clock + 1
    /\ UNCHANGED <<store, today, outbox, project_names>>

\* the UPDATE of the call of `a` runs and commits
ReviewCommit(a) ==
    LET h == session.review[a]
        r == update_submission_status(submissions, h.id, h.status, a, h.now)
    IN /\ h.pc = "calling"
       /\ submissions' = r.subs
       /\ session' = [session EXCEPT !.review[a].pc = "done"]
       /\ last' = [Call("review_commit", h.id, PyBool(r.ret))
                   EXCEPT !.status = h.status, !.reviewed_by = a]
       /\ UNCHANGED <<publications, submission_fields, ai_suggestions, users, clock, today,
                      outbox, project_names>>

NextReview ==
    \/ \E user_email \in Users, project_name \in ProjectInputs,
          form_data \in AIFormInputs, button \in {"submitted", "draft"} :
         SubmitClick(user_email, project_name, form_data, button)
    \/ \E a \in Approvers, submission_id \in review_queue : OpenReview(a, submission_id)
    \/ \E a \in Approvers, status \in {"approved", "rejected"} : ReviewCall(a, status)
    \/ \E a \in Approvers : ReviewCommit(a)

SpecReview == InitUI /\ [][NextReview]_vars

-----------------------------------------------------------------------------
(* SpecAI: the handlers that ask for content suggestions and the Submit   *)
(* handler that logs them.                                                 *)

\* most attempts asked of generate_suggestions_with_retry
MaxRetries == 3

\* most submissions made in SpecAI
MaxAISubs == 1

\* show_new_submission_page, Get AI Suggestions clicked, after
\* show_user_dashboard ensured the year; the provider answers `response`
GetAISuggestionsClick(project_name, form_data, response) ==
    LET pubs == ensure_current_year_publications(publications, Now, clock)
        active_pub == get_active_publication(pubs, Now)
        errors == validate_form_submission(form_data, FORM_FIELDS)
        suggestions == generate_suggestions(response)
        outcome ==
            IF active_pub = NULL THEN "no_active_publication"
            ELSE IF ~project_names.list THEN "page_raised"
            ELSE IF project_name = "" THEN "no_project"
            ELSE IF errors # <<>> THEN "invalid"
            ELSE suggestions
    IN /\ clock < MaxUIClock
       /\ publications' = pubs
       /\ session' = IF outcome = suggestions /\ suggestions # "raise" /\ truthy(suggestions)
                     THEN [session EXCEPT !.ai_suggestions = suggestions]
                     ELSE session
       /\ last' = [Call("get_ai_suggestions", NULL, outcome) EXCEPT !.response = response]
       /\ UNCHANGED <<submissions, submission_fields, ai_suggestions, users, today, outbox,
                      project_names>>
       /\ clock' = IF store' # store THEN clock + 1 ELSE clock

\* show_new_submission_page, Reject Suggestions clicked
RejectSuggestionsClick ==
    /\ truthy(session.ai_suggestions)
    /\ session' = [session EXCEPT !.ai_suggestions = None]
    /\ last' = Call("reject_suggestions", NULL, "None")
    /\ UNCHANGED <<store, clock, today, outbox, project_names>>

\* show_submission_review with Edit Submission ticked, Get AI Suggestions
\* clicked; the provider answers `response`
ApproverGetAISuggestionsClick(submission_id, response) ==
    LET suggestions == generate_suggestions(response)
    IN /\ session' = IF suggestions # "raise" /\ truthy(suggestions)
                     THEN [session EXCEPT !.ai_suggestions_of = @ \cup {submission_id}]
                     ELSE session
       /\ last' = [Call("approver_get_ai_suggestions", submission_id, suggestions)
                   EXCEPT !.response = response]
       /\ UNCHANGED <<store, clock, today, outbox, project_names>>

NextAI ==
    \/ \E project_name \in ProjectInputs, form_data \in AIFormInputs,
          response \in Responses :
         GetAISuggestionsClick(project_name, form_data, response)
    \/ RejectSuggestionsClick
    \/ \E user_email \in Users, project_name \in ProjectInputs,
          form_data \in AIFormInputs, button \in {"submitted", "draft"} :
         /\ Len(submissions) < MaxAISubs
         /\ SubmitClick(user_email, project_name, form_data, button)
    \/ \E submission_id \in review_queue, response \in Responses :
         ApproverGetAISuggestionsClick(submission_id, response)

SpecAI == InitUI /\ [][NextAI]_vars

-----------------------------------------------------------------------------
(* SpecRetry: generate_suggestions_with_retry over what the provider does  *)
(* at each attempt.                                                        *)

\* what the provider does at one attempt: fails, answers an empty object,
\* answers suggestions
RetryResponses == {"ClientError", "json_empty", "json"}

InitRetry ==
    /\ publications = initialize_database(<<>>, Calendar[1], 1)
    /\ submissions = <<>>
    /\ submission_fields = {}
    /\ ai_suggestions = <<>>
    /\ users = seed_sample_users({}, 1)
    /\ clock = 2
    /\ today = 1
    /\ outbox = <<>>
    /\ session = NoSession
    /\ project_names = ProjectNames
    /\ \E max_retries \in 0 .. MaxRetries :
          \E responses \in [1 .. (MaxRetries + 1) -> RetryResponses] :
             last = [Call("submission_data", NULL, "None")
                     EXCEPT !.responses = responses, !.max_retries = max_retries]

\* generate_suggestions_with_retry(submission_data, max_retries), the provider
\* answering responses[k] to the k-th call
GenerateSuggestionsWithRetry ==
    /\ last.op = "submission_data"
    /\ LET r == generate_suggestions_with_retry(last.responses, last.max_retries)
       IN last' = [Call("generate_suggestions_with_retry", NULL, r.ret)
                   EXCEPT !.responses = last.responses,
                          !.max_retries = last.max_retries, !.calls = r.calls]
    /\ UNCHANGED <<store, clock, today, env>>

NextRetry == GenerateSuggestionsWithRetry

SpecRetry == InitRetry /\ [][NextRetry]_vars

-----------------------------------------------------------------------------
(* SpecSetup: test_database of src/test_setup.py, run again after a run    *)
(* that failed and left its database file behind.                          *)

\* the publication test_database creates
TestYear == 2026

\* the years the setup test is run in
SetupYears == (FirstYear - 1) .. (FirstYear + 2)

\* most database writes of SpecSetup
MaxSetupClock == 6

InitSetup ==
    /\ publications = <<>>
    /\ submissions = <<>>
    /\ submission_fields = {}
    /\ ai_suggestions = <<>>
    /\ users = {}
    /\ clock = 1
    /\ today = 1
    /\ outbox = <<>>
    /\ session = NoSession
    /\ project_names = NoProjectNames
    /\ last = Call("test_database", NULL, "None")

\* test_database: initialize_database(test_db_path) in the year `year`, on
\* the file a failed run left or on no file
TestInitializeDatabase(year) ==
    /\ clock < MaxSetupClock
    /\ last.op \in {"test_database", "os_remove"} \/ last.ret = "raised"
    /\ publications' = initialize_database(publications,
                                           [year |-> year, month |-> 1, day |-> 1], clock)
    /\ users' = seed_sample_users(users, clock)
    /\ last' = [Call("initialize_database", NULL, "None")
                EXCEPT !.year = year, !.status = IF publications = <<>> THEN "fresh" ELSE ""]
    /\ clock' = clock + 1
    /\ UNCHANGED <<submissions, submission_fields, ai_suggestions, today, env>>

\* test_database: db.create_publication(2026, 1, 'first_half'); an exception
\* ends the test with False and the file is left
TestCreatePublication ==
    /\ last.op = "initialize_database"
    /\ LET r == create_publication(publications, TestYear, 1, "first_half", clock)
       IN /\ publications' = r.pubs
          /\ last' = [Call("test_create_publication", r.id,
                           IF r.raised THEN "raised" ELSE "Publication")
                      EXCEPT !.year = last.year, !.status = last.status]
    /\ UNCHANGED <<submissions, submission_fields, ai_suggestions, users, today, env>>
    /\ clock' = IF store' # store THEN clock + 1 ELSE clock

\* test_database: db.create_user('test@test.com', 'Test User', 'user')
TestCreateUser ==
    /\ last.op = "test_create_publication"
    /\ last.ret # "raised"
    /\ LET r == create_user(users, "test@test.com", "Test User", "user", clock)
       IN /\ users' = r.users
          /\ last' = [Call("test_create_user", NULL, IF r.raised THEN "raised" ELSE "User")
                      EXCEPT !.year = last.year, !.status = last.status]
    /\ UNCHANGED <<publications, submissions, submission_fields, ai_suggestions, today, env>>
    /\ clock' = IF store' # store THEN clock + 1 ELSE clock

\* test_database: os.remove(test_db_path), return True
OsRemove ==
    /\ last.op = "test_create_user"
    /\ last.ret # "raised"
    /\ publications' = <<>>
    /\ users' = {}
    /\ last' = Call("os_remove", NULL, "True")
    /\ UNCHANGED <<submissions, submission_fields, ai_suggestions, clock, today, env>>

NextSetup ==
    \/ \E year \in SetupYears : TestInitializeDatabase(year)
    \/ TestCreatePublication
    \/ TestCreateUser
    \/ OsRemove

SpecSetup == InitSetup /\ [][NextSetup]_vars

-----------------------------------------------------------------------------
(* SpecValidate: validate_form_submission applied to the mappings a caller  *)
(* may pass, and the Submit / Save as Draft handler on those of them the    *)
(* page can return.                                                         *)

\* a text of 201 characters
LongText ==
    LET ten == "0123456789"
        fifty == ten \o ten \o ten \o ten \o ten
    IN fifty \o fifty \o fifty \o fifty \o "x"

\* marks a key that is not in the mapping
NoKey == [list |-> FALSE, str |-> "", items |-> <<"no key">>]

\* the values of one key
TitleValues == {NoKey, Str(""), Str(" "), Str("A"), Str(LongText)}

CategoryValues == {NoKey, Str(""), Str("Innovation"), Str("Bogus"), List(<<"Innovation">>)}

TagsValues == {NoKey, List(<<>>), List(<<"X", "Y">>), Str("X")}

\* the mapping with the keys that were given a value
Mapping(title, category, tags) ==
    LET given == [title |-> title, category |-> category, tags |-> tags]
    IN [n \in {m \in DOMAIN given : given[m] # NoKey} |-> given[n]]

ValidationInputs ==
    {Mapping(title, category, tags) :
        title \in TitleValues, category \in CategoryValues, tags \in TagsValues}

\* what render_submission_form can return: every configured field, a text
\* for a text input, an option for a selectbox, a list for a multiselect
Renderable(form_data) ==
    /\ DOMAIN form_data = {"title", "category", "tags"}
    /\ ~form_data.title.list
    /\ ~form_data.category.list /\ form_data.category.str \in FORM_FIELDS[2].options
    /\ form_data.tags.list

InitValidate ==
    /\ publications = initialize_database(<<>>, Calendar[1], 1)
    /\ submissions = <<>>
    /\ submission_fields = {}
    /\ ai_suggestions = <<>>
    /\ users = seed_sample_users({}, 1)
    /\ clock = 2
    /\ today = 1
    /\ outbox = <<>>
    /\ session = NoSession
    /\ project_names = ProjectNames
    /\ \E fields \in ValidationInputs :
          last = [Call("form_data", NULL, "None") EXCEPT !.fields = fields]

\* validate_form_submission(fields, FORM_FIELDS) on the mapping
ValidateFormSubmission ==
    /\ LET errors == validate_form_submission(last.fields, FORM_FIELDS)
       IN last' = [Call("validate_form_submission", NULL, PyBool(errors = <<>>))
                   EXCEPT !.fields = last.fields, !.errors = errors]
    /\ UNCHANGED <<store, clock, today, env>>

NextValidate ==
    \/ ValidateFormSubmission
    \/ \E user_email \in Users, project_name \in ProjectInputs,
          button \in {"submitted", "draft"} :
         /\ Renderable(last.fields)
         /\ SubmitClick(user_email, project_name, last.fields, button)

SpecValidate == InitValidate /\ [][NextValidate]_vars

-----------------------------------------------------------------------------
(* Properties *)

Published(pubs, p) == p \in DOMAIN pubs /\ pubs[p].status = "published"

Delivered(p) == \E k \in DOMAIN outbox : outbox[k].pub_id = p

\* C1: in the approver publish workflow a publication becomes published only
\* in the step of the handler that follows a successful send of that same
\* publication (the email was delivered), and a send that returns failure
\* leaves every publication, status and published_at, as it was and leaves
\* the handler with no publish to do.
C1_PublishOnlyAfterSuccessfulSend ==
    [][ /\ \A p \in DOMAIN publications' :
            (Published(publications', p) /\ ~Published(publications, p))
               => /\ session.pc = "sent" /\ session.pub_id = p
                  /\ Delivered(p)
        /\ (last'.op = "send_publication_email" /\ last'.ret = "False")
               => /\ publications' = publications
                  /\ session'.pc = "idle" ]_vars

\* C1 witness: the publish handler has marked a delivered publication published
C1_Witness ==
    /\ last.op = "publish_publication"
    /\ Published(publications, last.id)
    /\ Delivered(last.id)

\* the submissions of publication p with one of the statuses
WithStatus(p, statuses) ==
    {i \in DOMAIN submissions :
        submissions[i].publication_id = p /\ submissions[i].status \in statuses}

\* the readiness predicate, from its definition: at least one approved
\* submission and none in draft or submitted
Ready(p) ==
    /\ WithStatus(p, {"approved"}) # {}
    /\ WithStatus(p, {"draft", "submitted"}) = {}

\* C2: the publish workflow moves a publication to published only when the
\* readiness predicate holds for it at that moment: at least one approved
\* submission and none in draft or submitted.
C2_PublishOnlyWhenReady ==
    [][ \A p \in DOMAIN publications' :
            (Published(publications', p) /\ ~Published(publications, p)) => Ready(p) ]_vars

\* C3: is_publication_ready_to_publish(p) is true exactly when p has at least
\* one approved submission and no draft and no submitted submission, whatever
\* the number of rejected ones; a publication with no submission is not ready.
C3_ReadyIff ==
    /\ \A p \in StatsPubs \cup {3} :
          is_publication_ready_to_publish(submissions, p) <=> Ready(p)
    /\ last.op = "is_publication_ready_to_publish"
          => (last.ret = "True" <=> Ready(last.id))

\* C3 witness: a publication with approved and rejected submissions is
\* reported ready
C3_Witness ==
    /\ last.op = "is_publication_ready_to_publish"
    /\ last.ret = "True"
    /\ WithStatus(last.id, {"rejected"}) # {}
    /\ WithStatus(last.id, {"approved"}) # {}

SameKey(a, b) == a.year = b.year /\ a.month = b.month /\ a.period = b.period

\* C4: there is at most one publication per (year, month, period), and a
\* create_publication for a key that is held fails and leaves the
\* publications as they were.
C4_UniqueKey ==
    [][ /\ \A i, j \in DOMAIN publications' :
            SameKey(publications'[i], publications'[j]) => i = j
        /\ (/\ last'.op = "create_publication"
            /\ \E i \in DOMAIN publications : SameKey(publications[i], last'))
               => /\ last'.ret = "raised"
                  /\ publications' = publications ]_vars

\* C4 witness: a create_publication for a held key has failed
C4_Witness ==
    /\ last.op = "create_publication"
    /\ last.ret = "raised"
    /\ \E i \in DOMAIN publications : SameKey(publications[i], last)

OfYear(pubs, year) == {i \in DOMAIN pubs : pubs[i].year = year}

\* C5: after generate_annual_publications(Y) the store holds exactly 24
\* publications of Y, one for each month 1..12 and each half, and every
\* publication the call created is open with no published_at.
C5_Generate24 ==
    [][ last'.op = "generate_annual_publications"
          => /\ Cardinality(OfYear(publications', last'.year)) = 24
             /\ \A month \in 1 .. 12, period \in {"first_half", "second_half"} :
                   Cardinality({i \in OfYear(publications', last'.year) :
                                   /\ publications'[i].month = month
                                   /\ publications'[i].period = period}) = 1
             /\ \A i \in DOMAIN publications' \ DOMAIN publications :
                   /\ publications'[i].year = last'.year
                   /\ publications'[i].status = "open"
                   /\ publications'[i].published_at = NULL ]_vars

\* C5 witness: generate_annual_publications has created the 24 publications
\* of a year
C5_Witness ==
    /\ last.op = "generate_annual_publications"
    /\ last.id = 24
    /\ Cardinality(OfYear(publications, last.year)) = 24

\* C6: generate_annual_publications for a year of which publications exist
\* does not raise, creates only the missing (month, period) entries and
\* leaves every existing publication as it was, status and published_at
\* included.
C6_GenerateIdempotent ==
    [][ last'.op = "generate_annual_publications"
          => /\ last'.ret = "ok"
             /\ \A i \in DOMAIN publications :
                   i \in DOMAIN publications' /\ publications'[i] = publications[i]
             /\ \A i \in DOMAIN publications' \ DOMAIN publications :
                   /\ publications'[i].year = last'.year
                   /\ \A j \in DOMAIN publications :
                         ~SameKey(publications[j], publications'[i])
             /\ Len(publications') - Len(publications)
                   = 24 - Cardinality(OfYear(publications, last'.year))
             /\ last'.id = Len(publications') - Len(publications) ]_vars

\* C6 witness: the call found a part of the year, one publication of it no
\* longer open, and created the rest
C6_Witness ==
    /\ last.op = "generate_annual_publications"
    /\ last.id > 0 /\ last.id < 24
    /\ \E i \in OfYear(publications, last.year) : publications[i].status # "open"

\* the dates get_active_publication is evaluated at
Dates ==
    [year : (FirstYear - 1) .. (FirstYear + 2), month : 1 .. 12,
     day : {1, 14, 15, 16, 17, 31}]

\* the publication of the period of date d, when it exists and is open
ActiveAt(d) ==
    LET half == IF d.day \in 1 .. 15 THEN "first_half" ELSE "second_half"
        rows == {i \in DOMAIN publications :
                    /\ publications[i].year = d.year
                    /\ publications[i].month = d.month
                    /\ publications[i].period = half}
    IN IF rows # {} /\ \A i \in rows : publications[i].status = "open"
       THEN CHOOSE i \in rows : TRUE
       ELSE NULL

\* C7: at every date D, get_active_publication returns the publication with
\* the key (D.year, D.month, first_half if D.day <= 15 else second_half) when
\* it exists and is open, and none otherwise.
C7_ActivePublication ==
    /\ \A d \in Dates :
          /\ get_active_publication(publications, d) = ActiveAt(d)
          /\ get_current_period(d)
                = <<d.year, d.month, IF d.day \in 1 .. 15 THEN "first_half" ELSE "second_half">>
    /\ last.op = "get_active_publication" => last.id = ActiveAt(Now)

\* C7 witness: on a 15th, get_active_publication has returned the open
\* publication of the first half while the second half exists as well
C7_Witness ==
    /\ last.op = "get_active_publication"
    /\ last.id # NULL
    /\ Now.day = 15
    /\ publications[last.id].period = "first_half"
    /\ \E i \in DOMAIN publications :
          /\ publications[i].year = Now.year /\ publications[i].month = Now.month
          /\ publications[i].period = "second_half" /\ publications[i].status = "open"

\* the submissions of publication p
Of(p) == {i \in DOMAIN submissions : submissions[i].publication_id = p}

PublishedAt(pubs, i) == IF i \in DOMAIN pubs THEN pubs[i].published_at ELSE NULL

\* C9: publish_publication(id) on an existing publication, whatever its
\* status, sets the status to published and published_at to a time, and
\* published_at changes only in a transition to published.
C9_PublishStamps ==
    [][ /\ (last'.op = "publish_publication" /\ last'.id \in DOMAIN publications)
              => /\ last'.ret = "True"
                 /\ publications'[last'.id].status = "published"
                 /\ publications'[last'.id].published_at # NULL
        /\ \A i \in DOMAIN publications' :
              PublishedAt(publications', i) # PublishedAt(publications, i)
                 => /\ last'.op = "publish_publication" /\ last'.id = i
                    /\ publications'[i].status = "published" ]_vars

\* C9 witness: a publication has been published by a call that was not the
\* one right after its creation
C9_Witness ==
    /\ last.op = "publish_publication"
    /\ last.ret = "True"
    /\ publications[last.id].published_at # NULL
    /\ publications[last.id].published_at > publications[last.id].created_at + 1

\* C10: close_publication(id) moves an open publication to under_review with
\* published_at absent, and does not change the status of a publication that
\* is not open.
C10_CloseOnlyOpen ==
    [][ (last'.op = "close_publication" /\ last'.id \in DOMAIN publications)
          => IF publications[last'.id].status = "open"
             THEN /\ publications'[last'.id].status = "under_review"
                  /\ publications'[last'.id].published_at = NULL
             ELSE publications'[last'.id].status = publications[last'.id].status ]_vars

\* C11: close_publication, publish_publication and update_submission_status
\* called with an id that is not in the store return False, do not raise, and
\* leave every publication, submission and field row as it was.
C11_NotFoundReturnsFalse ==
    [][ /\ (/\ last'.op \in {"close_publication", "publish_publication"}
            /\ last'.id \notin DOMAIN publications)
               => last'.ret = "False" /\ store' = store
        /\ (/\ last'.op = "update_submission_status"
            /\ last'.id \notin DOMAIN submissions)
               => last'.ret = "False" /\ store' = store ]_vars

\* C11 witness: with a publication and a submission in the store, a status
\* update of a submission id that does not exist has returned False
C11_Witness ==
    /\ last.op = "update_submission_status"
    /\ last.id \notin DOMAIN submissions
    /\ last.ret = "False"
    /\ publications # <<>> /\ submissions # <<>>

\* the field rows of submission i
RowsOf(rows, i) == {r \in rows : r.submission_id = i}

\* C12: update_submission_fields called with a submission id that does not
\* exist reports failure and writes nothing: no field row exists for that id
\* afterwards, and no submission and no other submission's field rows change.
C12_UpdateFieldsUnknownId ==
    [][ (/\ last'.op = "update_submission_fields"
         /\ last'.id \notin DOMAIN submissions)
           => /\ last'.ret = "False"
              /\ RowsOf(submission_fields', last'.id) = {}
              /\ submissions' = submissions
              /\ \A i \in DOMAIN submissions :
                    RowsOf(submission_fields', i) = RowsOf(submission_fields, i) ]_vars

\* C13: create_submission adds exactly one submission, with a fresh id,
\* status draft, created_at = updated_at, no submitted_at, reviewed_by or
\* reviewed_at, attached to the publication_id it was given, and changes no
\* existing submission and no publication.
C13_CreateSubmission ==
    [][ last'.op = "create_submission"
          => /\ Len(submissions') = Len(submissions) + 1
             /\ last'.id = Len(submissions')
             /\ last'.id \notin DOMAIN submissions
             /\ LET new == submissions'[last'.id]
                IN /\ new.status = "draft"
                   /\ new.created_at = new.updated_at
                   /\ new.created_at # NULL
                   /\ new.submitted_at = NULL
                   /\ new.reviewed_by = None
                   /\ new.reviewed_at = NULL
                   /\ new.publication_id = last'.publication_id
             /\ \A i \in DOMAIN submissions : submissions'[i] = submissions[i]
             /\ publications' = publications ]_vars

\* C13 witness: a second submission was created, attached to a publication
\* of the store that holds the first one too
C13_Witness ==
    /\ last.op = "create_submission"
    /\ last.id = 2
    /\ last.publication_id \in DOMAIN publications
    /\ submissions[1].publication_id = last.publication_id

\* the text a value of a mapping reads back as: a string as it is, a list as
\* its items with ", " between them
ReadsBackAs(value) ==
    IF ~value.list THEN value.str
    ELSE IF Len(value.items) = 0 THEN ""
    ELSE IF Len(value.items) = 1 THEN value.items[1]
    ELSE value.items[1] \o ", " \o value.items[2]

\* C14: for every mapping F passed to create_submission,
\* get_submission_fields of the new submission returns a mapping with exactly
\* the keys of F, each string value unchanged and each list value as the one
\* string of its items joined with ", ".
C14_FieldRoundTrip ==
    [][ last'.op = "create_submission"
          => LET got == get_submission_fields(submission_fields', last'.id)
                 F == last'.fields
             IN /\ DOMAIN got = DOMAIN F
                /\ \A n \in DOMAIN F : got[n] = ReadsBackAs(F[n]) ]_vars

\* C15: update_submission_fields(s, F) on an existing submission replaces its
\* field mapping whole: get_submission_fields(s) then has exactly the keys of
\* F with the values of F, updated_at is bumped, and the submission's status,
\* submitted_at, reviewed_by and reviewed_at and the field rows of every other
\* submission are unchanged.
C15_UpdateFieldsReplaces ==
    [][ (last'.op = "update_submission_fields" /\ last'.id \in DOMAIN submissions)
          => LET got == get_submission_fields(submission_fields', last'.id)
                 F == last'.fields
             IN /\ last'.ret = "True"
                /\ DOMAIN got = DOMAIN F
                /\ \A n \in DOMAIN F : got[n] = ReadsBackAs(F[n])
                /\ submissions'[last'.id].updated_at > submissions[last'.id].updated_at
                /\ submissions' = [submissions EXCEPT ![last'.id].updated_at =
                                                      submissions'[last'.id].updated_at]
                /\ \A i \in 1 .. (Len(submissions) + 1) \ {last'.id} :
                      RowsOf(submission_fields', i) = RowsOf(submission_fields, i) ]_vars

\* C15 witness: an existing submission has had its fields replaced by a
\* mapping of a title alone, while another submission keeps its tags
C15_Witness ==
    /\ last.op = "update_submission_fields"
    /\ last.id \in DOMAIN submissions
    /\ DOMAIN get_submission_fields(submission_fields, last.id) = {"title"}
    /\ submissions[last.id].updated_at > submissions[last.id].created_at
    /\ \E i \in DOMAIN submissions \ {last.id} :
          "tags" \in DOMAIN get_submission_fields(submission_fields, i)

\* C16: a transition of a submission into approved or rejected requires
\* reviewedBy: every submission that is approved or rejected has a reviewed_by
\* and a reviewed_at, the reviewed_at equal to the updated_at of the
\* transition, and a call with no reviewedBy produces no approved or rejected
\* submission with reviewed_by absent.
C16_ReviewedByRequired ==
    [][ \A i \in DOMAIN submissions' :
          submissions'[i].status \in {"approved", "rejected"}
             => /\ submissions'[i].reviewed_by # None
                /\ submissions'[i].reviewed_at # NULL
                /\ (/\ last'.op = "update_submission_status" /\ last'.id = i
                    /\ last'.status \in {"approved", "rejected"})
                       => submissions'[i].reviewed_at = submissions'[i].updated_at ]_vars

\* C17: submitted_at is set once: the first transition of a submission into
\* submitted stamps submitted_at = updated_at = the time of the transition,
\* and no later operation on the submission changes submitted_at.
C17_SubmittedAtSetOnce ==
    [][ \A i \in DOMAIN submissions :
          /\ (/\ submissions[i].submitted_at = NULL
              /\ last'.op = "update_submission_status" /\ last'.id = i
              /\ last'.status = "submitted")
                 => /\ submissions'[i].submitted_at # NULL
                    /\ submissions'[i].submitted_at = submissions'[i].updated_at
          /\ submissions[i].submitted_at # NULL
                 => submissions'[i].submitted_at = submissions[i].submitted_at ]_vars

\* C18: update_submission_status with a status other than submitted,
\* approved or rejected (draft included) changes only the status and the
\* updated_at of the submission: submitted_at, reviewed_by, reviewed_at, the
\* field rows, publication_id and every other submission stay as they were.
C18_OtherStatusFrame ==
    [][ (/\ last'.op = "update_submission_status"
         /\ last'.id \in DOMAIN submissions
         /\ last'.status \notin {"submitted", "approved", "rejected"})
          => /\ last'.ret = "True"
             /\ submissions'[last'.id].status = last'.status
             /\ submissions'[last'.id].updated_at > submissions[last'.id].updated_at
             /\ submissions' =
                   [submissions EXCEPT ![last'.id].status = last'.status,
                                       ![last'.id].updated_at =
                                           submissions'[last'.id].updated_at]
             /\ submission_fields' = submission_fields
             /\ publications' = publications ]_vars

\* C18 witness: a reviewed submission was set back to draft and keeps its
\* reviewer and its review time
C18_Witness ==
    /\ last.op = "update_submission_status"
    /\ last.status = "draft"
    /\ last.id \in DOMAIN submissions
    /\ submissions[last.id].status = "draft"
    /\ submissions[last.id].reviewed_by # None
    /\ submissions[last.id].reviewed_at # NULL

\* C19: update_submission_status is permissive and the last write wins: on
\* an existing submission it succeeds from any status to any status, and a
\* review transition leaves the status, the reviewed_by and the reviewed_at
\* of that call, whatever an earlier review had written.
C19_LastWriteWins ==
    [][ (last'.op = "update_submission_status" /\ last'.id \in DOMAIN submissions)
          => /\ last'.ret = "True"
             /\ submissions'[last'.id].status = last'.status
             /\ last'.status \in {"approved", "rejected"}
                   => /\ submissions'[last'.id].reviewed_by = last'.reviewed_by
                      /\ submissions'[last'.id].reviewed_at
                            = submissions'[last'.id].updated_at
                      /\ submissions'[last'.id].reviewed_at
                            > submissions[last'.id].reviewed_at ]_vars

\* C19 witness: the only submission, created at time 1 and never submitted,
\* its fields never rewritten, had a status update at time 2 and is approved
\* by the second approver at time 3
C19_Witness ==
    /\ last.op = "update_submission_status"
    /\ last.status = "approved"
    /\ last.reviewed_by = "approver2@organization.com"
    /\ Len(submissions) = 1 /\ last.id = 1
    /\ submissions[1].created_at = 1
    /\ submissions[1].submitted_at = NULL
    /\ submissions[1].status = "approved"
    /\ submissions[1].reviewed_by = "approver2@organization.com"
    /\ submissions[1].reviewed_at = 3
    /\ \A r \in submission_fields : r.created_at = 1

\* the configured fields whose value in F violates the field's rule
TitleViolates(F) ==
    \/ "title" \notin DOMAIN F
    \/ F.title.str \in {"", " "}
    \/ Len(F.title.str) > 200

CategoryViolates(F) ==
    \/ "category" \notin DOMAIN F
    \/ F.category.list
    \/ F.category.str \notin {"Innovation", "Other"}

TagsViolates(F) == "tags" \in DOMAIN F /\ ~F.tags.list /\ F.tags.str # ""

Violations(F) ==
    (IF TitleViolates(F) THEN 1 ELSE 0) + (IF CategoryViolates(F) THEN 1 ELSE 0)
        + (IF TagsViolates(F) THEN 1 ELSE 0)

\* C20: validate_form_submission returns one message for every configured
\* field whose value violates its rule, all of them in one list, and is_valid
\* is true exactly when the list is empty; an empty title with a category
\* outside the options gives exactly two messages; and the Submit / Save as
\* Draft handler creates no submission and writes no field row when the
\* result is invalid.
C20_ValidationExhaustive ==
    [][ /\ last'.op = "validate_form_submission"
           => /\ Len(last'.errors) = Violations(last'.fields)
              /\ last'.ret = "True" <=> last'.errors = <<>>
              /\ (/\ TitleViolates(last'.fields) /\ CategoryViolates(last'.fields)
                  /\ ~TagsViolates(last'.fields))
                     => /\ Len(last'.errors) = 2
                        /\ last'.errors[1] \in {"Spotlight Title is required",
                               "Spotlight Title must not exceed 200 characters"}
                        /\ last'.errors[2] \in {"Category is required",
                               "Category must be one of the available options"}
              /\ store' = store
        /\ (last'.op = "submit_click" /\ Violations(last'.fields) > 0)
           => /\ submissions' = submissions
              /\ submission_fields' = submission_fields
              /\ last'.ret # "created" ]_vars

\* C20 witness: an empty title with a category outside the options was
\* validated: two messages, not valid, nothing stored
C20_Witness ==
    /\ last.op = "validate_form_submission"
    /\ DOMAIN last.fields = {"title", "category", "tags"}
    /\ last.fields.title.str = ""
    /\ last.fields.category.str = "Bogus"
    /\ last.errors = <<"Spotlight Title is required",
                       "Category must be one of the available options">>
    /\ last.ret = "False"
    /\ submissions = <<>> /\ submission_fields = {}

-----------------------------------------------------------------------------
(* Suggestions *)

\* the handler of `l` reached its call of generate_suggestions
AICalled(l) ==
    \/ l.op = "approver_get_ai_suggestions"
    \/ /\ l.op = "get_ai_suggestions"
       /\ l.ret \notin {"no_active_publication", "page_raised", "no_project", "invalid"}

\* C21: a call of generate_suggestions that fails, in the provider call or in
\* the parsing of the response, returns None and does not raise, and the
\* submitter's or the approver's handler that made it leaves every
\* submission, every field row and the suggestion log as they were.
C21_FailedSuggestionLeavesState ==
    [][(AICalled(last') /\ last'.response \in Failures)
         => /\ last'.ret = None
            /\ submissions' = submissions
            /\ submission_fields' = submission_fields
            /\ ai_suggestions' = ai_suggestions]_vars

\* the approver's call failed on a submission whose suggestions were logged
C21_Witness ==
    /\ last.op = "approver_get_ai_suggestions"
    /\ last.response = "ClientError"
    /\ last.ret = None
    /\ ai_suggestions # <<>>
    /\ submissions[last.id].status = "submitted"

-----------------------------------------------------------------------------
(* Setup test *)

\* C22: on a freshly initialized database, whatever the current year is,
\* create_publication(2026, 1, 'first_half') does not raise and adds a new
\* open publication, and create_user('test@test.com', 'Test User', 'user')
\* does not raise and adds a new user.
C22_TestDatabaseSucceeds ==
    [][ /\ (last'.op = "test_create_publication" /\ last'.status = "fresh")
           => /\ last'.ret = "Publication"
              /\ Len(publications') = Len(publications) + 1
              /\ publications'[last'.id].status = "open"
              /\ SameKey(publications'[last'.id],
                         [year |-> TestYear, month |-> 1, period |-> "first_half"])
        /\ (last'.op = "test_create_user" /\ last'.status = "fresh")
           => /\ last'.ret = "User"
              /\ \E u \in users' \ users : u.email = "test@test.com" ]_vars

-----------------------------------------------------------------------------
(* Workflow *)

\* the steps of the workflow: draft -> submitted -> approved | rejected
Forward(from, to) ==
    \/ from = to
    \/ from = "draft" /\ to = "submitted"
    \/ from = "submitted" /\ to \in {"approved", "rejected"}

\* C23: under the handlers of the submitter's and the approver's dashboards a
\* submission's status only moves forward along draft -> submitted ->
\* approved | rejected: never from submitted back to draft, never from
\* approved or rejected to another status; no submission disappears.
C23_StatusMovesForward ==
    [][\A i \in DOMAIN submissions :
          /\ i \in DOMAIN submissions'
          /\ Forward(submissions[i].status, submissions'[i].status)]_vars

\* an approver approved a submitted submission while a draft exists
C23_Witness ==
    /\ last.op = "approve_click"
    /\ last.ret = "True"
    /\ submissions[last.id].status = "approved"
    /\ \E i \in DOMAIN submissions : submissions[i].status = "draft"

\* C24: every submission the new-submission page creates references, at the
\* moment its row is inserted, a publication that exists, is open and is the
\* publication of the current date's period, whatever the approver did and
\* however the date moved between the page's read and its insert.
C24_AttachedToOpenPublication ==
    [][(last'.op \in {"submit_click", "submit_insert"} /\ last'.ret = "created")
         => LET pid == submissions'[last'.id].publication_id
            IN /\ pid \in DOMAIN publications
               /\ publications[pid].status = "open"
               /\ pid = get_active_publication(publications, Now)]_vars

\* C25: once a publication is published, no handler changes the status or
\* the field mapping of a submission that belongs to it, and its set of
\* approved submissions stays as it was.
C25_PublishedIsLocked ==
    [][\A p \in DOMAIN publications :
          publications[p].status = "published"
             => /\ \A i \in get_submissions_by_publication(submissions, p, None) :
                      /\ submissions'[i].status = submissions[i].status
                      /\ get_submission_fields(submission_fields', i)
                            = get_submission_fields(submission_fields, i)
                /\ get_submissions_by_publication(submissions', p, "approved")
                      = get_submissions_by_publication(submissions, p, "approved")]_vars

-----------------------------------------------------------------------------
(* Concurrent review *)

\* status, reviewed_by and reviewed_at of a submission row
Review(s) == <<s.status, s.reviewed_by, s.reviewed_at>>

\* C26: when two approvers review one submitted submission at the same time,
\* neither call is refused, and the row's status, reviewed_by and
\* reviewed_at are at every moment those of one call, the last one
\* committed: a commit writes the three together and no other step changes
\* any of them.
C26_LastCommitWinsWhole ==
    [][\A i \in DOMAIN submissions :
          IF last'.op = "review_commit" /\ last'.id = i
          THEN /\ last'.ret = "True"
               /\ Review(submissions'[i])
                     = <<last'.status, last'.reviewed_by,
                         session.review[last'.reviewed_by].now>>
          ELSE Review(submissions'[i]) = Review(submissions[i])]_vars

\* approver2's rejection committed after approver1's approval, both made on
\* pages that showed the submission as submitted, approver2's call entered
\* first
C26_Witness ==
    /\ last.op = "review_commit"
    /\ last.status = "rejected"
    /\ last.reviewed_by = "approver2@organization.com"
    /\ session.review["approver1@organization.com"]
          = [pc |-> "done", id |-> last.id, status |-> "approved",
             now |-> session.review["approver2@organization.com"].now + 1]
    /\ Review(submissions[last.id])
          = <<"rejected", "approver2@organization.com",
              session.review["approver2@organization.com"].now>>

-----------------------------------------------------------------------------
(* Ensuring the year *)

\* C27: after ensure_current_year_publications every one of the 24 (month,
\* period) publications of the current year exists, whatever subset of them
\* existed before, and every publication that existed is as it was.
C27_EnsureCompletesYear ==
    [][last'.op = "ensure_current_year_publications"
         => /\ \A month \in 1 .. 12, period \in {"first_half", "second_half"} :
                  RowsOfKey(publications', Now.year, month, period) # {}
            /\ \A i \in DOMAIN publications :
                  i \in DOMAIN publications' /\ publications'[i] = publications[i]]_vars

-----------------------------------------------------------------------------
(* Retry *)

\* the attempts among the first max_retries whose result is not empty
Successful(responses, max_retries) ==
    {k \in 1 .. max_retries : truthy(generate_suggestions(responses[k]))}

\* the least number of a set of numbers that is not empty
Least(S) == CHOOSE k \in S : \A j \in S : k <= j

\* C28: generate_suggestions_with_retry terminates after at most
\* max_retries calls of generate_suggestions, returns the first result that
\* is not empty, made no call after it, and returns None when no attempt
\* gave one (also when max_retries is 0).
C28_RetryBounded ==
    [][last'.op = "generate_suggestions_with_retry"
         => LET ok == Successful(last'.responses, last'.max_retries)
            IN /\ last'.calls <= last'.max_retries
               /\ IF ok = {}
                  THEN last'.ret = None /\ last'.calls = last'.max_retries
                  ELSE /\ last'.calls = Least(ok)
                       /\ last'.ret = generate_suggestions(last'.responses[Least(ok)])
                       /\ truthy(last'.ret)]_vars

\* two failed attempts, an empty and an errored one, before a result at the
\* third and last attempt
C28_Witness ==
    /\ last.op = "generate_suggestions_with_retry"
    /\ last.max_retries = 3
    /\ last.responses[1] = "ClientError"
    /\ last.responses[2] = "json_empty"
    /\ last.responses[3] = "json"
    /\ last.calls = 3
    /\ last.ret = "suggestions"

-----------------------------------------------------------------------------
(* One email per publication *)

\* the emails of publication p that were delivered
Deliveries(p) == {k \in DOMAIN outbox : outbox[k].pub_id = p}

\* C29: with one approver session the email of a publication is delivered at
\* most once: when the publish handler has finished, a publication whose
\* email was delivered is published, and a published publication is not
\* offered by the publish page.
C29_SentAtMostOnce ==
    \A p \in DOMAIN publications :
       /\ Cardinality(Deliveries(p)) <= 1
       /\ (Delivered(p) /\ session.pc = "idle") => Published(publications, p)
       /\ Published(publications, p) => p \notin pubs_ready

\* a submission of a published, delivered publication was approved after
\* the publication: the publication has approved submissions and is not
\* offered again
C29_Witness ==
    /\ last.op = "approve_click"
    /\ last.ret = "True"
    /\ Published(publications, submissions[last.id].publication_id)
    /\ Cardinality(Deliveries(submissions[last.id].publication_id)) = 1
    /\ submissions[last.id].publication_id \notin pubs_ready

-----------------------------------------------------------------------------
(* The review queue can format submitted_at *)

\* C30: in every state reached by calls of create_submission,
\* update_submission_status and update_submission_fields, a submission whose
\* status is submitted has a submitted_at, so the review queue, which lists
\* the submitted submissions, always has a time to format.
C30_SubmittedHasSubmittedAt ==
    \A i \in DOMAIN submissions :
       submissions[i].status = "submitted" => submissions[i].submitted_at # NULL

\* a submission was submitted some calls after its creation, next to one
\* that has never been submitted
C30_Witness ==
    /\ last.op = "update_submission_status"
    /\ last.status = "submitted"
    /\ last.ret = "True"
    /\ submissions[last.id].status = "submitted"
    /\ submissions[last.id].submitted_at = submissions[last.id].updated_at
    /\ submissions[last.id].submitted_at > submissions[last.id].created_at + 1
    /\ \E i \in DOMAIN submissions :
          submissions[i].status = "draft" /\ submissions[i].submitted_at = NULL

====
